---- MODULE Spec2Model ----
(***************************************************************************)
(* A model of the EEG server: the serial reader (readLoop) and the mock    *)
(* generator (mockLoop) of internal/serial, the bounded DataStream channel *)
(* between them and the decode loop of cmd/server/main.go, the Settings    *)
(* store and the /api/gain handlers.  The decode loop and the settings are *)
(* modelled twice: as single steps (ConsumerRecv, GetGain, SetGain) where   *)
(* the channel is under study, and step by step (DecodeRecv .. DecodeLine,  *)
(* GetGainCall .. SetGainReturn) where their interleaving is.               *)
(*                                                                         *)
(* Bytes are integers 0..255.  A Go slice or array is a sequence; Go's     *)
(* 0-based index i is the sequence index i+1.  A float64 is modelled by    *)
(* the integer or the exact fraction it holds (see Volts).                 *)
(*                                                                         *)
(* The model describes the tasks while the process lives: main's return    *)
(* after its 500 ms sleep (main.go:136-139) ends the process and with it   *)
(* every behaviour, at a point the untimed model does not fix.             *)
(***************************************************************************)
EXTENDS Integers, Sequences, FiniteSets, TLC

\* ------------------------------------------------------------ constants

\* Protocol: 25 bytes total (serial.go:98-99, main.go:85).
FrameLen == 25
\* Byte 0 of a frame is 'A' (serial.go:101, serial.go:150, main.go:90).
HeaderByte == 65
\* make(chan []byte, 100) (serial.go:34).
Capacity == 100
\* readBuf := make([]byte, 1024) (serial.go:73).
ReadBufLen == 1024
\* ch < 8 (serial.go:154, main.go:105).
Channels == 8
\* Default gain 4.0 (settings, part_001:14).
DefaultGain == 4
\* const vRef = 5.0 (main.go:99).
VRef == 5
\* const maxADC = 16777216.0, 2^24 (main.go:100).
MaxADC == 16777216
\* const PortMock = "MOCK" (serial.go:16).
PortMock == "MOCK"

\* ------------------------------------------------------------ bounds

\* Frames the device sends in a run of Spec and FairSpec.
MaxFrames == 2
\* Noise bytes the device sends in a run of Spec and FairSpec.
MaxNoise == 1
\* Ticks of the mock's ticker in a run of Spec and FairSpec.
MaxTicks == 2
\* Frames (and ticks) beyond Capacity that a run of SpecBurst produces.
Overflow == 2
\* The history counter itersAfterCancel stops counting here.
IterCap == 2
\* Packets put into DataStream in a run of SpecLoop.
MaxInject == 2
\* Ports in the list of available ports in a run of SpecSelect.
MaxPorts == 2
\* Length of the stream without any header byte in a run of SpecStream.
MaxGarbage == 30
\* The history counter of reads in a run of SpecStream stops counting here.
ReadCap == 3

\* ------------------------------------------------------------ bytes

\* The arithmetic shift x >> k of a signed integer.
Shr(x, k) == x \div (2 ^ k)

\* byte(x & 0xFF) of a signed integer in two's complement.
LowByte(x) == x % 256

\* A big-endian encoder turned around: the least significant byte first.
Encode24LittleEndian(valInt) ==
    << LowByte(valInt), LowByte(Shr(valInt, 8)), LowByte(Shr(valInt, 16)) >>

\* serial.go:163-165: the three big-endian bytes of valInt.
Encode24(valInt) ==
    << LowByte(Shr(valInt, 16)), LowByte(Shr(valInt, 8)), LowByte(valInt) >>

\* main.go:114-122: a 32-bit word is kept as its top byte and its low 24 bits,
\* so that no intermediate value leaves the 32-bit range.
\* val32 := uint32(b0)<<16 | uint32(b1)<<8 | uint32(b2)
Word24(b0, b1, b2) == [hi |-> 0, lo |-> b0 * 65536 + b1 * 256 + b2]

\* A decoder that reads the 24 bits as an unsigned number.
SignExtendNone(w) == w

\* if val32&0x800000 != 0 { val32 |= 0xFF000000 }
SignExtend(w) ==
    IF (w.lo \div 8388608) % 2 = 1 THEN [hi |-> 255, lo |-> w.lo] ELSE w

\* int32(val32): the two's-complement reading of the 32-bit word.
Int32(w) == (IF w.hi >= 128 THEN w.hi - 256 ELSE w.hi) * 16777216 + w.lo

\* main.go:107-122: the signed sample of channel ch (0-based) of a packet.
Sample(packet, ch) ==
    LET start == 1 + ch * 3
    IN  Int32(SignExtend(Word24(packet[start + 1], packet[start + 2],
                                packet[start + 3])))

\* main.go:101,126: volts := (float64(valSigned) * scale) / currentGain, with
\* scale = vRef / maxADC.  A finite quotient is kept as the exact fraction
\* num/den; a division by zero gives what IEEE 754 gives: +Inf, -Inf (num is
\* the sign) or NaN (0/0).
Volts(valSigned, currentGain) ==
    IF currentGain = 0
    THEN [kind |-> IF valSigned = 0 THEN "NaN" ELSE "Inf",
          num |-> IF valSigned > 0 THEN 1 ELSE IF valSigned < 0 THEN -1 ELSE 0,
          den |-> 0]
    ELSE [kind |-> "finite", num |-> valSigned * VRef, den |-> MaxADC * currentGain]

\* main.go:85-130: one pass of the decode loop over a received packet, as what
\* it prints: a report for an invalid packet, else eight values.
DecodeFrame(pkt, currentGain) ==
    IF Len(pkt) # FrameLen
    THEN [status |-> "invalid length", volts |-> << >>]
    ELSE IF pkt[1] # HeaderByte
    THEN [status |-> "invalid header", volts |-> << >>]
    ELSE [status |-> "RX",
          volts |-> [ch \in 1..Channels |-> Volts(Sample(pkt, ch - 1), currentGain)]]

\* serial.go:149-166: a 25-byte packet from eight sample values (samples[ch+1]
\* is channel ch): the header, then each value's three bytes at 1 + ch*3.
BuildPacket(samples) ==
    [i \in 1..FrameLen |->
        IF i = 1 THEN HeaderByte
        ELSE Encode24(samples[((i - 2) \div 3) + 1])[((i - 2) % 3) + 1]]

\* serial.go:157-158: int32(8000000 * math.Sin(t + float64(ch))) for
\* t = 0, 0.1, 0.2, ... (t += 0.1 per tick, serial.go:167); row n+1 is tick n.
MockSine ==
 <<
    <<0, 6731767, 7274379, 1128960, -6054419, -7671394, -2235323, 5255892>>,
    <<798667, 7129658, 6905674, 332645, -6546216, -7406517, -1457300, 5831752>>,
    <<1589354, 7456312, 6467971, -466993, -6972606, -7067637, -664715, 6349342>>,
    <<2364161, 7708465, 5965641, -1261965, -7329327, -6658139, 134511, 6803492>>,
    <<3115346, 7883597, 5403705, -2044328, -7612816, -6182115, 932393, 7189664>>,
    <<3835404, 7979959, 4787777, -2806265, -7820240, -5644322, 1720959, 7503999>>,
    <<4517139, 7996588, 4124010, -3540163, -7949528, -5050133, 2492330, 7743357>>,
    <<5153741, 7933318, 3419039, -4238689, -7999386, -4405484, 3238799, 7905345>>,
    <<5738848, 7790781, 2679905, -4894863, -7969316, -3716817, 3952906, 7988346>>,
    <<6266615, 7570400, 1913994, -5502129, -7859620, -2991013, 4627518, 7991530>>,
    <<6731767, 7274379, 1128960, -6054419, -7671394, -2235323, 5255892, 7914865>>,
    <<7129658, 6905674, 332645, -6546216, -7406517, -1457300, 5831752, 7759118>>,
    <<7456312, 6467971, -466993, -6972606, -7067637, -664715, 6349342, 7525844>>,
    <<7708465, 5965641, -1261965, -7329327, -6658139, 134511, 6803492, 7217374>>,
    <<7883597, 5403705, -2044328, -7612816, -6182115, 932393, 7189664, 6836791>>,
    <<7979959, 4787777, -2806265, -7820240, -5644322, 1720959, 7503999, 6387896>>,
    <<7996588, 4124010, -3540163, -7949528, -5050133, 2492330, 7743357, 5875176>>,
    <<7933318, 3419039, -4238689, -7999386, -4405484, 3238799, 7905345, 5303753>>,
    <<7790781, 2679905, -4894863, -7969316, -3716817, 3952906, 7988346, 4679337>>,
    <<7570400, 1913994, -5502129, -7859620, -2991013, 4627518, 7991530, 4008166>>,
    <<7274379, 1128960, -6054419, -7671394, -2235323, 5255892, 7914865, 3296947>>,
    <<6905674, 332645, -6546216, -7406517, -1457300, 5831752, 7759118, 2552786>>,
    <<6467971, -466993, -6972606, -7067637, -664715, 6349342, 7525844, 1783119>>,
    <<5965641, -1261965, -7329327, -6658139, 134511, 6803492, 7217374, 995635>>,
    <<5403705, -2044328, -7612816, -6182115, 932393, 7189664, 6836791, 198203>>,
    <<4787777, -2806265, -7820240, -5644322, 1720959, 7503999, 6387896, -601208>>,
    <<4124010, -3540163, -7949528, -5050133, 2492330, 7743357, 5875176, -1394614>>,
    <<3419039, -4238689, -7999386, -4405484, 3238799, 7905345, 5303753, -2174085>>,
    <<2679905, -4894863, -7969316, -3716817, 3952906, 7988346, 4679337, -2931833>>,
    <<1913994, -5502129, -7859620, -2991013, 4627518, 7991530, 4008166, -3660287>>,
    <<1128960, -6054419, -7671394, -2235323, 5255892, 7914865, 3296947, -4352168>>,
    <<332645, -6546216, -7406517, -1457300, 5831752, 7759118, 2552786, -5000565>>,
    <<-466993, -6972606, -7067637, -664715, 6349342, 7525844, 1783119, -5598997>>,
    <<-1261965, -7329327, -6658139, 134511, 6803492, 7217374, 995635, -6141486>>,
    <<-2044328, -7612816, -6182115, 932393, 7189664, 6836791, 198203, -6622611>>,
    <<-2806265, -7820240, -5644322, 1720959, 7503999, 6387896, -601208, -7037566>>,
    <<-3540163, -7949528, -5050133, 2492330, 7743357, 5875176, -1394614, -7382203>>,
    <<-4238689, -7999386, -4405484, 3238799, 7905345, 5303753, -2174085, -7653080>>,
    <<-4894863, -7969316, -3716817, 3952906, 7988346, 4679337, -2931833, -7847489>>,
    <<-5502129, -7859620, -2991013, 4627518, 7991530, 4008166, -3660287, -7963490>>,
    <<-6054419, -7671394, -2235323, 5255892, 7914865, 3296947, -4352168, -7999921>>,
    <<-6546216, -7406517, -1457300, 5831752, 7759118, 2552786, -5000565, -7956420>>,
    <<-6972606, -7067637, -664715, 6349342, 7525844, 1783119, -5598997, -7833421>>,
    <<-7329327, -6658139, 134511, 6803492, 7217374, 995635, -6141486, -7632153>>,
    <<-7612816, -6182115, 932393, 7189664, 6836791, 198203, -6622611, -7354628>>,
    <<-7820240, -5644322, 1720959, 7503999, 6387896, -601208, -7037566, -7003617>>,
    <<-7949528, -5050133, 2492330, 7743357, 5875176, -1394614, -7382203, -6582628>>,
    <<-7999386, -4405484, 3238799, 7905345, 5303753, -2174085, -7653080, -6095868>>,
    <<-7969316, -3716817, 3952906, 7988346, 4679337, -2931833, -7847489, -5548200>>,
    <<-7859620, -2991013, 4627518, 7991530, 4008166, -3660287, -7963490, -4945096>>,
    <<-7671394, -2235323, 5255892, 7914865, 3296947, -4352168, -7999921, -4292583>>,
    <<-7406517, -1457300, 5831752, 7759118, 2552786, -5000565, -7956420, -3597179>>,
    <<-7067637, -664715, 6349342, 7525844, 1783119, -5598997, -7833421, -2865834>>,
    <<-6658139, 134511, 6803492, 7217374, 995635, -6141486, -7632153, -2105854>>,
    <<-6182115, 932393, 7189664, 6836791, 198203, -6622611, -7354628, -1324833>>,
    <<-5644322, 1720959, 7503999, 6387896, -601208, -7037566, -7003617, -530575>>,
    <<-5050133, 2492330, 7743357, 5875176, -1394614, -7382203, -6582628, 268984>>,
    <<-4405484, 3238799, 7905345, 5303753, -2174085, -7653080, -6095868, 1065856>>,
    <<-3716817, 3952906, 7988346, 4679337, -2931833, -7847489, -5548200, 1852078>>,
    <<-2991013, 4627518, 7991530, 4008166, -3660287, -7963490, -4945096, 2619795>>,
    <<-2235323, 5255892, 7914865, 3296947, -4352168, -7999921, -4292583, 3361336>>,
    <<-1457300, 5831752, 7759118, 2552786, -5000565, -7956420, -3597179, 4069291>>,
    <<-664715, 6349342, 7525844, 1783119, -5598997, -7833421, -2865834, 4736588>>,
    <<134511, 6803492, 7217374, 995635, -6141486, -7632153, -2105854, 5356558>>,
    <<932393, 7189664, 6836791, 198203, -6622611, -7354628, -1324833, 5923007>>,
    <<1720959, 7503999, 6387896, -601208, -7037566, -7003617, -530575, 6430275>>,
    <<2492330, 7743357, 5875176, -1394614, -7382203, -6582628, 268984, 6873294>>,
    <<3238799, 7905345, 5303753, -2174085, -7653080, -6095868, 1065856, 7247637>>,
    <<3952906, 7988346, 4679337, -2931833, -7847489, -5548200, 1852078, 7549565>>,
    <<4627518, 7991530, 4008166, -3660287, -7963490, -4945096, 2619795, 7776060>>,
    <<5255892, 7914865, 3296947, -4352168, -7999921, -4292583, 3361336, 7924858>>,
    <<5831752, 7759118, 2552786, -5000565, -7956420, -3597179, 4069291, 7994475>>,
    <<6349342, 7525844, 1783119, -5598997, -7833421, -2865834, 4736588, 7984213>>,
    <<6803492, 7217374, 995635, -6141486, -7632153, -2105854, 5356558, 7894175>>,
    <<7189664, 6836791, 198203, -6622611, -7354628, -1324833, 5923007, 7725262>>,
    <<7503999, 6387896, -601208, -7037566, -7003617, -530575, 6430275, 7479160>>,
    <<7743357, 5875176, -1394614, -7382203, -6582628, 268984, 6873294, 7158329>>,
    <<7905345, 5303753, -2174085, -7653080, -6095868, 1065856, 7247637, 6765974>>,
    <<7988346, 4679337, -2931833, -7847489, -5548200, 1852078, 7549565, 6306016>>,
    <<7991530, 4008166, -3660287, -7963490, -4945096, 2619795, 7776060, 5783050>>,
    <<7914865, 3296947, -4352168, -7999921, -4292583, 3361336, 7924858, 5202302>>,
    <<7759118, 2552786, -5000565, -7956420, -3597179, 4069291, 7994475, 4569574>>,
    <<7525844, 1783119, -5598997, -7833421, -2865834, 4736588, 7984213, 3891189>>,
    <<7217374, 995635, -6141486, -7632153, -2105854, 5356558, 7894175, 3173924>>,
    <<6836791, 198203, -6622611, -7354628, -1324833, 5923007, 7725262, 2424946>>,
    <<6387896, -601208, -7037566, -7003617, -530575, 6430275, 7479160, 1651739>>,
    <<5875176, -1394614, -7382203, -6582628, 268984, 6873294, 7158329, 862029>>,
    <<5303753, -2174085, -7653080, -6095868, 1065856, 7247637, 6765974, 63705>>,
    <<4679337, -2931833, -7847489, -5548200, 1852078, 7549565, 6306016, -735254>>,
    <<4008166, -3660287, -7963490, -4945096, 2619795, 7776060, 5783050, -1526868>>,
    <<3296947, -4352168, -7999921, -4292583, 3361336, 7924858, 5202302, -2303226>>,
    <<2552786, -5000565, -7956420, -3597179, 4069291, 7994475, 4569574, -3056571>>,
    <<1783119, -5598997, -7833421, -2865834, 4736588, 7984213, 3891189, -3779375>>,
    <<995635, -6141486, -7632153, -2105854, 5356558, 7894175, 3173924, -4464418>>,
    <<198203, -6622611, -7354628, -1324833, 5923007, 7725262, 2424946, -5104853>>,
    <<-601208, -7037566, -7003617, -530575, 6430275, 7479160, 1651739, -5694282>>,
    <<-1394614, -7382203, -6582628, 268984, 6873294, 7158329, 862029, -6226816>>,
    <<-2174085, -7653080, -6095868, 1065856, 7247637, 6765974, 63705, -6697134>>,
    <<-2931833, -7847489, -5548200, 1852078, 7549565, 6306016, -735254, -7100536>>,
    <<-3660287, -7963490, -4945096, 2619795, 7776060, 5783050, -1526868, -7432992>>,
    <<-4352168, -7999921, -4292583, 3361336, 7924858, 5202302, -2303226, -7691179>>,
    <<-5000565, -7956420, -3597179, 4069291, 7994475, 4569574, -3056571, -7872520>>,
    <<-5598997, -7833421, -2865834, 4736588, 7984213, 3891189, -3779375, -7975200>>,
    <<-6141486, -7632153, -2105854, 5356558, 7894175, 3173924, -4464418, -7998195>>,
    <<-6622611, -7354628, -1324833, 5923007, 7725262, 2424946, -5104853, -7941275>>,
    <<-7037566, -7003617, -530575, 6430275, 7479160, 1651739, -5694282, -7805008>>
 >>

\* serial.go:149-166: the packet mockLoop builds at its n-th tick (n from 0).
MockPacket(n) == BuildPacket(MockSine[n + 1])

\* ------------------------------------------------------------ the device

\* The eight samples of the k-th frame the device sends (k from 1): channel 0
\* is 0x410000 + k, whose first payload byte is again 'A'; the others cover
\* both signs and both ends of the 24-bit range.
DeviceSamples(k) ==
    << 4259840 + k, 0 - k, 8388607, -8388608, 0, k * 65, 0 - 4259840, 1 >>

\* Byte i (from 1) of the k-th frame on the wire.
DeviceByte(k, i) ==
    IF i = 1 THEN HeaderByte
    ELSE Encode24(DeviceSamples(k)[((i - 2) \div 3) + 1])[((i - 2) % 3) + 1]

\* The k-th frame on the wire.
DeviceFrame(k) == [i \in 1..FrameLen |-> DeviceByte(k, i)]

\* Frames first+1 .. first+m back to back, then the first j bytes of the next.
DeviceBytes(first, m, j) ==
    [i \in 1..(m * FrameLen + j) |->
        DeviceByte(first + 1 + ((i - 1) \div FrameLen), ((i - 1) % FrameLen) + 1)]

\* The bytes a noise source may put between two frames: one that is not the
\* header byte and the header byte itself.
NoiseBytes == {0, HeaderByte}

\* ------------------------------------------------------------ the channel

\* A send that makes room by discarding the oldest buffered frame.
ChanSendDropOldest(q, p) ==
    IF Len(q) < Capacity THEN Append(q, p) ELSE Append(Tail(q), p)

\* select { case d.DataStream <- p: default: } on an open channel
\* (serial.go:121-125, serial.go:169-172): the buffer after the attempt.
ChanTrySend(q, p) == IF Len(q) < Capacity THEN Append(q, p) ELSE q

\* A receive that takes the newest buffered frame.
ChanRecvNewest(q) == [value |-> q[Len(q)], rest |-> SubSeq(q, 1, Len(q) - 1)]

\* for packet := range d.DataStream (main.go:84): the value received and the
\* buffer left.
ChanRecv(q) == [value |-> Head(q), rest |-> Tail(q)]

\* ------------------------------------------------------------ memory

\* serial.go:73: the array behind readBuf, which every port.Read writes into.
ReadBufArray == "readBuf"

\* A frame kept in the read buffer's own array.
FullPacketInReadBuf == ReadBufArray

\* serial.go:114 and serial.go:149: make([]byte, 25) gives every frame a new
\* array that no other slice refers to.
FullPacketArray == "fullPacket"

\* port.Read(readBuf) stores the chunk in readBuf[0:n] (serial.go:87): the
\* bytes seen afterwards through a slice that starts at index 0 of array arr
\* and held the bytes of frame before.
WriteThrough(frame, arr, chunk) ==
    IF arr = ReadBufArray
    THEN [i \in 1..Len(frame) |-> IF i <= Len(chunk) THEN chunk[i] ELSE frame[i]]
    ELSE frame

\* The buffered frames q, held in the arrays arrs, after port.Read has stored
\* the chunk.
ReadInto(q, arrs, chunk) ==
    IF \A i \in 1..Len(q) : arrs[i] # ReadBufArray
    THEN q
    ELSE [i \in 1..Len(q) |-> WriteThrough(q[i], arrs[i], chunk)]

\* ------------------------------------------------------------ the assembler

\* An accumulator that keeps only the bytes of the last read.
AccumulateLast(buf, chunk) == chunk

\* serial.go:95: packetBuf = append(packetBuf, readBuf[:n]...).
Accumulate(buf, chunk) == buf \o chunk

\* A check that takes any front byte for the start byte.
NeedResyncNever(buf) == FALSE

\* serial.go:101: the front byte is not the start byte.
NeedResync(buf) == buf[1] # HeaderByte

\* A resync that slides the window by two bytes.
ResyncTwo(buf) == SubSeq(buf, 3, Len(buf))

\* serial.go:103: packetBuf = packetBuf[1:].
Resync(buf) == Tail(buf)

\* serial.go:114-115: fullPacket, a copy of packetBuf[:25].
ExtractFrame(buf) == SubSeq(buf, 1, FrameLen)

\* serial.go:118: packetBuf = packetBuf[25:].
Advance(buf) == SubSeq(buf, FrameLen + 1, Len(buf))

\* ------------------------------------------------------------ state

VARIABLES
    mainpc,        \* main: "start", "wait" (<-ctx.Done()), "sleep", "fatal"
    PortName,      \* Device.PortName, the selected port
    ctxDone,       \* the context has been cancelled
    DataStream,    \* the frames buffered in Device.DataStream
    closed,        \* DataStream has been closed
    backing,       \* for each buffered frame, the array that holds its bytes
    ppc,           \* the producer goroutine's position
    packetBuf,     \* readLoop's accumulator
    portClosed,    \* port.Close() has run
    tickReady,     \* ticker.C holds a tick
    t,             \* ticks mockLoop has taken (its t is 0.1 * t)
    cpc,           \* the decode goroutine's position
    packet,        \* the packet the decode loop received last
    out,           \* what the decode loop printed for it
    currentGain,   \* the decode loop's currentGain while it decodes a frame
    decodeCh,      \* the decode loop's channel index ch while it decodes a frame
    gain,          \* Settings.gain
    hpc,           \* per HTTP handler: "idle", "request", "respond"
    hreq,          \* per HTTP handler: the request it serves
    resp,          \* per HTTP handler: its last response
    pending,       \* device: bytes of the frame under way still to deliver
    nStarted,      \* device: frames begun
    srcLeft,       \* device: frames still to begin in this run
    noiseLeft,     \* device: noise bytes still to send in this run
    noiseA,        \* device: a noise byte equal to the header byte was sent
    ticksLeft,     \* ticker: ticks still to fire in this run
    offered,       \* history: every frame a producer tried to enqueue
    qIdx,          \* history: for each buffered frame, its index in offered
    recvIdx,       \* history: the indices in offered of the frames received
    dropped,       \* history: enqueue attempts that found the buffer full
    closeCount,    \* history: executions of close(d.DataStream)
    launched,      \* history: the producer loops Start has launched
    panicked,      \* history: a double close or a send on the closed channel
    readErr,       \* history: port.Read has returned an error
    itersAfterCancel, \* history: reads / ticks taken after the cancellation
    recvAfterClose, \* history: a frame was received after the close
    fnIn,          \* input of the function under test
    fnOut,         \* its result
    mu,            \* Settings.mu: the readers inside and whether a writer is
    spc,           \* per caller of the settings: its position in GetGain / SetGain
    sarg,          \* per caller: the argument of the SetGain it is in
    sret,          \* per caller: the result of the GetGain it is in
    setLog,        \* history: the SetGain that returned last, and those under way
    getLog         \* history: per caller, what its GetGain saw when it started

mainVars == << mainpc, PortName, ctxDone >>
chanVars == << DataStream, closed, backing >>
prodVars == << ppc, packetBuf, portClosed, tickReady, t >>
consVars == << cpc, packet, out, currentGain, decodeCh >>
apiVars  == << gain, hpc, hreq, resp >>
srcVars  == << pending, nStarted, srcLeft, noiseLeft, noiseA, ticksLeft >>
histVars == << offered, qIdx, recvIdx, dropped, closeCount, launched, panicked,
               readErr, itersAfterCancel, recvAfterClose >>
fnVars   == << fnIn, fnOut >>
lockVars == << mu, spc, sarg, sret, setLog, getLog >>
vars == << mainVars, chanVars, prodVars, consVars, apiVars, srcVars, histVars,
           fnVars, lockVars >>

\* The HTTP handlers that may run at once (net/http serves each request in a
\* goroutine of its own).
Handlers == {1, 2}

\* The tasks that call the settings: the decode goroutine (main.go:96) and
\* the goroutines net/http runs the /api/gain handlers in (serial.go:229,
\* serial.go:252, serial.go:259).
Callers == {"decode", "api1", "api2"}

\* history of the settings: no SetGain has returned (the gain is the default
\* of settings.New, part_001:14) and none is under way.  last is the argument
\* of the SetGain that returned last, alone says that no other SetGain was
\* under way at any time during that call, active and overlapped are the
\* callers inside a SetGain and those of them whose call has overlapped
\* another, passed are the arguments of all SetGain calls.
NoSets == [last |-> DefaultGain, alone |-> TRUE, active |-> {}, overlapped |-> {},
           passed |-> {}]

\* history of a GetGain: quiet says that no SetGain was under way when it
\* started nor began since, last and alone are those of the settings' history
\* when it started.
NoView == [quiet |-> FALSE, last |-> DefaultGain, alone |-> TRUE]

NoRequest == [method |-> "none", kind |-> "none", gain |-> 0]
NoResponse == [status |-> 0, body |-> "none", gain |-> 0]
NoInput == [packet |-> << >>, gain |-> DefaultGain]
NoOutput == [status |-> "none", volts |-> << >>]

\* The state once main has built the device (main.go:20, main.go:72): the
\* settings hold the default gain, the channel is empty and open, nothing runs.
InitBase ==
    /\ mainpc = "start"
    /\ PortName \in {PortMock, "/dev/tty.usbmodem1"}
    /\ ctxDone = FALSE
    /\ DataStream = << >>
    /\ closed = FALSE
    /\ backing = << >>
    /\ ppc = "none"
    /\ packetBuf = << >>
    /\ portClosed = FALSE
    /\ tickReady = FALSE
    /\ t = 0
    /\ cpc = "none"
    /\ packet = << >>
    /\ out = NoOutput
    /\ currentGain = 0
    /\ decodeCh = 0
    /\ gain = DefaultGain
    /\ hpc = [h \in Handlers |-> "idle"]
    /\ hreq = [h \in Handlers |-> NoRequest]
    /\ resp = [h \in Handlers |-> NoResponse]
    /\ pending = << >>
    /\ nStarted = 0
    /\ noiseA = FALSE
    /\ offered = << >>
    /\ qIdx = << >>
    /\ recvIdx = << >>
    /\ dropped = 0
    /\ closeCount = 0
    /\ launched = {}
    /\ panicked = FALSE
    /\ readErr = FALSE
    /\ itersAfterCancel = 0
    /\ recvAfterClose = FALSE
    /\ mu = [readers |-> 0, writer |-> FALSE]
    /\ spc = [c \in Callers |-> "idle"]
    /\ sarg = [c \in Callers |-> DefaultGain]
    /\ sret = [c \in Callers |-> DefaultGain]
    /\ setLog = NoSets
    /\ getLog = [c \in Callers |-> NoView]
    /\ fnIn = NoInput
    /\ fnOut = NoOutput

Init ==
    /\ InitBase
    /\ srcLeft = MaxFrames
    /\ noiseLeft = MaxNoise
    /\ ticksLeft = MaxTicks

\* ------------------------------------------------------------ main

\* The process is running: log.Fatalf has not ended it.
Alive == mainpc # "fatal"

\* main.go:75-83 with Device.Start (serial.go:40-62): in mock mode Start
\* launches mockLoop; otherwise it opens the port and launches readLoop, or
\* fails, and main ends the process with log.Fatalf.  After a successful Start
\* main launches the decode goroutine and waits for the cancellation.
DeviceStart ==
    /\ mainpc = "start"
    /\ \/ /\ PortName = PortMock
          /\ ppc' = "mselect"
          /\ launched' = launched \cup {"mockLoop"}
          /\ mainpc' = "wait"
          /\ cpc' = "recv"
       \/ /\ PortName # PortMock
          /\ ppc' = "select"
          /\ launched' = launched \cup {"readLoop"}
          /\ mainpc' = "wait"
          /\ cpc' = "recv"
       \/ /\ PortName # PortMock
          /\ mainpc' = "fatal"
          /\ UNCHANGED << ppc, launched, cpc >>
    /\ UNCHANGED << PortName, ctxDone, chanVars, packetBuf, portClosed,
                    tickReady, t, packet, out, currentGain, decodeCh, apiVars, srcVars,
                    offered, qIdx,
                    recvIdx, dropped, closeCount, panicked, readErr,
                    itersAfterCancel, recvAfterClose, fnVars, lockVars >>

\* main.go:63-69: Ctrl+C arrives and the signal goroutine calls cancel().
Interrupt ==
    /\ mainpc \in {"start", "wait"}
    /\ ~ctxDone
    /\ ctxDone' = TRUE
    /\ UNCHANGED << mainpc, PortName, chanVars, prodVars, consVars, apiVars,
                    srcVars, histVars, fnVars, lockVars >>

\* main.go:136-138: main passes <-ctx.Done() and sleeps.
MainWait ==
    /\ mainpc = "wait"
    /\ ctxDone
    /\ mainpc' = "sleep"
    /\ UNCHANGED << PortName, ctxDone, chanVars, prodVars, consVars, apiVars,
                    srcVars, histVars, fnVars, lockVars >>

\* ------------------------------------------------------------ enqueue

\* serial.go:121-125 and serial.go:169-172: the non-blocking send of packet p.
\* A send on a closed channel panics.
Offer(p) ==
    /\ offered' = Append(offered, p)
    /\ IF closed
       THEN /\ panicked' = TRUE
            /\ UNCHANGED << DataStream, qIdx, dropped >>
       ELSE /\ DataStream' = ChanTrySend(DataStream, p)
            /\ qIdx' = ChanTrySend(qIdx, Len(offered) + 1)
            /\ dropped' = IF DataStream' = DataStream THEN dropped + 1 ELSE dropped
            /\ UNCHANGED panicked

\* close(d.DataStream), deferred in both loops (serial.go:68, serial.go:133).
\* Closing a closed channel panics.
CloseDataStream ==
    /\ closeCount' = closeCount + 1
    /\ closed' = TRUE
    /\ panicked' = (panicked \/ closed)

\* history: one more read or tick taken, counted when the context is already
\* cancelled, up to IterCap.
CountAfterCancel ==
    IF ctxDone /\ itersAfterCancel < IterCap
    THEN itersAfterCancel + 1
    ELSE itersAfterCancel

\* ------------------------------------------------------------ readLoop

\* A cancellation check that closes the channel itself before returning into
\* the deferred close.
ReadLoopSelectClosing ==
    /\ Alive
    /\ ppc = "select"
    /\ ppc' = IF ctxDone THEN "exit" ELSE "read"
    /\ IF ctxDone
       THEN CloseDataStream
       ELSE UNCHANGED << closed, closeCount, panicked >>
    /\ UNCHANGED << mainVars, DataStream, backing, packetBuf, portClosed, tickReady, t,
                    consVars, apiVars, srcVars, offered, qIdx, recvIdx, dropped,
                    launched, readErr, itersAfterCancel, recvAfterClose, fnVars, lockVars >>

\* serial.go:79-84: the cancellation check at the top of each iteration; not
\* cancelled, the loop goes on to call port.Read (serial.go:87).
ReadLoopSelect ==
    /\ Alive
    /\ ppc = "select"
    /\ ppc' = IF ctxDone THEN "exit" ELSE "read"
    /\ UNCHANGED << mainVars, chanVars, packetBuf, portClosed, tickReady, t,
                    consVars, apiVars, srcVars, histVars, fnVars, lockVars >>

\* serial.go:87-95: port.Read returns n > 0 bytes and no error, and they are
\* appended to the accumulator.  The bytes are the next r bytes of the frame
\* under way; when that completes it, then the noise bytes nz, m whole frames
\* and the first j bytes of one more.
PortRead(r, nz, m, j) ==
    /\ Alive
    /\ ppc = "read"
    /\ r \in 0..Len(pending)
    /\ (pending # << >>) => (r >= 1)
    /\ (r < Len(pending)) => (nz = << >> /\ m = 0 /\ j = 0)
    /\ Len(nz) <= noiseLeft
    /\ j \in 0..(FrameLen - 1)
    /\ m + (IF j > 0 THEN 1 ELSE 0) <= srcLeft
    /\ LET chunk == SubSeq(pending, 1, r) \o nz \o DeviceBytes(nStarted, m, j)
           began == m + (IF j > 0 THEN 1 ELSE 0)
       IN  /\ Len(chunk) \in 1..ReadBufLen
           /\ packetBuf' = Accumulate(packetBuf, chunk)
           /\ DataStream' = ReadInto(DataStream, backing, chunk)
           /\ pending' = IF j > 0
                         THEN SubSeq(DeviceFrame(nStarted + began), j + 1, FrameLen)
                         ELSE SubSeq(pending, r + 1, Len(pending))
           /\ nStarted' = nStarted + began
           /\ srcLeft' = srcLeft - began
           /\ noiseLeft' = noiseLeft - Len(nz)
           /\ noiseA' = (noiseA \/ \E i \in 1..Len(nz) : nz[i] = HeaderByte)
    /\ ppc' = "frame"
    /\ itersAfterCancel' = CountAfterCancel
    /\ UNCHANGED << mainVars, closed, backing, portClosed, tickReady, t, consVars,
                    apiVars, ticksLeft, offered, qIdx, recvIdx, dropped,
                    closeCount, launched, panicked, readErr, recvAfterClose,
                    fnVars, lockVars >>

\* serial.go:87-93: port.Read returns n = 0 and no error; the loop starts over.
PortReadEmpty ==
    /\ Alive
    /\ ppc = "read"
    /\ ppc' = "select"
    /\ itersAfterCancel' = CountAfterCancel
    /\ UNCHANGED << mainVars, chanVars, packetBuf, portClosed, tickReady, t,
                    consVars, apiVars, srcVars, offered, qIdx, recvIdx, dropped,
                    closeCount, launched, panicked, readErr, recvAfterClose,
                    fnVars, lockVars >>

\* A read error that is logged and retried.
PortReadErrorRetry ==
    /\ Alive
    /\ ppc = "read"
    /\ ppc' = "select"
    /\ readErr' = TRUE
    /\ UNCHANGED << mainVars, chanVars, packetBuf, portClosed, tickReady, t,
                    consVars, apiVars, srcVars, offered, qIdx, recvIdx, dropped,
                    closeCount, launched, panicked, itersAfterCancel,
                    recvAfterClose, fnVars, lockVars >>

\* serial.go:87-91: port.Read returns an error; readLoop logs it and returns.
PortReadError ==
    /\ Alive
    /\ ppc = "read"
    /\ ppc' = "exit"
    /\ readErr' = TRUE
    /\ UNCHANGED << mainVars, chanVars, packetBuf, portClosed, tickReady, t,
                    consVars, apiVars, srcVars, offered, qIdx, recvIdx, dropped,
                    closeCount, launched, panicked, itersAfterCancel, recvAfterClose,
                    fnVars, lockVars >>

\* serial.go:99-126: one pass of the inner loop.
FrameStep ==
    /\ Alive
    /\ ppc = "frame"
    /\ IF Len(packetBuf) >= FrameLen
       THEN IF NeedResync(packetBuf)
            THEN /\ packetBuf' = Resync(packetBuf)
                 /\ UNCHANGED << ppc, chanVars, offered, qIdx, dropped, panicked >>
            ELSE IF Len(packetBuf) < FrameLen
            THEN /\ ppc' = "select"
                 /\ UNCHANGED << packetBuf, chanVars, offered, qIdx, dropped,
                                 panicked >>
            ELSE /\ packetBuf' = Advance(packetBuf)
                 /\ Offer(ExtractFrame(packetBuf))
                 /\ backing' = IF closed THEN backing
                                ELSE ChanTrySend(backing, FullPacketArray)
                 /\ ppc' = IF closed THEN "panic" ELSE ppc
                 /\ UNCHANGED closed
       ELSE /\ ppc' = "select"
            /\ UNCHANGED << packetBuf, chanVars, offered, qIdx, dropped, panicked >>
    /\ UNCHANGED << mainVars, portClosed, tickReady, t, consVars, apiVars,
                    srcVars, recvIdx, closeCount, launched, readErr,
                    itersAfterCancel, recvAfterClose, fnVars, lockVars >>

\* serial.go:68: the deferred close(d.DataStream) runs first on return.
ReadLoopExit ==
    /\ Alive
    /\ ppc = "exit"
    /\ CloseDataStream
    /\ ppc' = "closeport"
    /\ UNCHANGED << mainVars, DataStream, backing, packetBuf, portClosed, tickReady, t,
                    consVars, apiVars, srcVars, offered, qIdx, recvIdx, dropped,
                    launched, readErr, itersAfterCancel, recvAfterClose, fnVars, lockVars >>

\* serial.go:67: the deferred port.Close() runs last.
ReadLoopClosePort ==
    /\ Alive
    /\ ppc = "closeport"
    /\ portClosed' = TRUE
    /\ ppc' = "done"
    /\ UNCHANGED << mainVars, chanVars, packetBuf, tickReady, t, consVars,
                    apiVars, srcVars, histVars, fnVars, lockVars >>

\* ------------------------------------------------------------ mockLoop

\* serial.go:136: the 4 ms ticker fires; ticker.C keeps at most one tick.
Tick ==
    /\ Alive
    /\ ppc = "mselect"
    /\ ticksLeft > 0
    /\ ~tickReady
    /\ tickReady' = TRUE
    /\ ticksLeft' = ticksLeft - 1
    /\ UNCHANGED << mainVars, chanVars, ppc, packetBuf, portClosed, t, consVars,
                    apiVars, pending, nStarted, srcLeft, noiseLeft, noiseA,
                    histVars, fnVars, lockVars >>

\* serial.go:141-144: the select takes <-ctx.Done() and mockLoop returns.
MockCancel ==
    /\ Alive
    /\ ppc = "mselect"
    /\ ctxDone
    /\ ppc' = "mexit"
    /\ UNCHANGED << mainVars, chanVars, packetBuf, portClosed, tickReady, t,
                    consVars, apiVars, srcVars, histVars, fnVars, lockVars >>

\* serial.go:145-172: the select takes <-ticker.C (when both cases are ready
\* Go picks either); mockLoop builds a packet and tries to enqueue it.
MockTick ==
    /\ Alive
    /\ ppc = "mselect"
    /\ tickReady
    /\ tickReady' = FALSE
    /\ Offer(MockPacket(t))
    /\ backing' = IF closed THEN backing ELSE ChanTrySend(backing, FullPacketArray)
    /\ t' = t + 1
    /\ ppc' = IF closed THEN "panic" ELSE ppc
    /\ itersAfterCancel' = CountAfterCancel
    /\ UNCHANGED << mainVars, closed, packetBuf, portClosed, consVars, apiVars,
                    srcVars, recvIdx, closeCount, launched, readErr,
                    recvAfterClose,
                    fnVars, lockVars >>

\* serial.go:133,137: the deferred ticker.Stop() and close(d.DataStream).
MockExit ==
    /\ Alive
    /\ ppc = "mexit"
    /\ CloseDataStream
    /\ ppc' = "done"
    /\ UNCHANGED << mainVars, DataStream, backing, packetBuf, portClosed, tickReady, t,
                    consVars, apiVars, srcVars, offered, qIdx, recvIdx, dropped,
                    launched, readErr, itersAfterCancel, recvAfterClose, fnVars, lockVars >>

\* ------------------------------------------------------------ decode loop

\* main.go:84-131: the range loop receives the oldest buffered packet and
\* decodes it with the gain read from the settings.
ConsumerRecv ==
    /\ Alive
    /\ cpc = "recv"
    /\ DataStream # << >>
    /\ packet' = ChanRecv(DataStream).value
    /\ DataStream' = ChanRecv(DataStream).rest
    /\ recvIdx' = Append(recvIdx, ChanRecv(qIdx).value)
    /\ qIdx' = ChanRecv(qIdx).rest
    /\ backing' = ChanRecv(backing).rest
    /\ out' = DecodeFrame(packet', gain)
    /\ recvAfterClose' = (recvAfterClose \/ closed)
    /\ UNCHANGED << mainVars, closed, prodVars, cpc, currentGain, decodeCh, apiVars,
                    srcVars, offered,
                    dropped, closeCount, launched, panicked, readErr,
                    itersAfterCancel, fnVars, lockVars >>

\* A range loop that ends as soon as the channel is closed.
ConsumerEndEarly ==
    /\ Alive
    /\ cpc = "recv"
    /\ closed
    /\ cpc' = "done"
    /\ UNCHANGED << mainVars, chanVars, prodVars, packet, out, currentGain, decodeCh, apiVars,
                    srcVars,
                    histVars, fnVars, lockVars >>

\* main.go:84,132: the channel is closed and empty; the range loop ends and
\* the goroutine prints "Data stream closed.".
ConsumerEnd ==
    /\ Alive
    /\ cpc = "recv"
    /\ DataStream = << >>
    /\ closed
    /\ cpc' = "done"
    /\ UNCHANGED << mainVars, chanVars, prodVars, packet, out, currentGain, decodeCh, apiVars,
                    srcVars,
                    histVars, fnVars, lockVars >>

\* ------------------------------------------------------------ settings and API

\* part_001:19-23: Settings.GetGain, under the read lock.
GetGain == gain

\* part_001:26-30: Settings.SetGain, under the write lock.
SetGain(g) == gain' = g

\* The gains a request body may carry.
GainInputs == {-1, 0, 1, 8}

\* The requests a client may send to /api/gain: a GET, a method the mux does
\* not serve, and a POST whose body is not JSON ("malformed"), has a gain that
\* is not a number ("wrongtype"), has no gain field ("nogain") or carries a
\* number.
Requests ==
    {[method |-> "GET", kind |-> "none", gain |-> 0],
     [method |-> "PUT", kind |-> "none", gain |-> 0]}
    \cup {[method |-> "POST", kind |-> k, gain |-> 0] :
             k \in {"malformed", "wrongtype", "nogain"}}
    \cup {[method |-> "POST", kind |-> "number", gain |-> g] : g \in GainInputs}

\* serial.go:237-241: json.NewDecoder(r.Body).Decode(&body): an error, or the
\* body's Gain, which stays at the zero value when the field is absent.
JsonDecode(rq) ==
    [err |-> rq.kind \in {"malformed", "wrongtype"},
     Gain |-> IF rq.kind = "number" THEN rq.gain ELSE 0]

\* A request reaches the server and a handler goroutine takes it.
ApiRequest(h, rq) ==
    /\ Alive
    /\ hpc[h] = "idle"
    /\ hpc' = [hpc EXCEPT ![h] = "request"]
    /\ hreq' = [hreq EXCEPT ![h] = rq]
    /\ UNCHANGED << mainVars, chanVars, prodVars, consVars, gain, resp, srcVars,
                    histVars, fnVars, lockVars >>

\* serial.go:213-214, 228-234: handleGetGain.
HandleGetGain(h) ==
    /\ Alive
    /\ hpc[h] = "request"
    /\ hreq[h].method = "GET"
    /\ resp' = [resp EXCEPT ![h] = [status |-> 200, body |-> "gain", gain |-> GetGain]]
    /\ hpc' = [hpc EXCEPT ![h] = "idle"]
    /\ UNCHANGED << mainVars, chanVars, prodVars, consVars, gain, hreq, srcVars,
                    histVars, fnVars, lockVars >>

\* serial.go:217-218: any other method.
HandleOther(h) ==
    /\ Alive
    /\ hpc[h] = "request"
    /\ hreq[h].method \notin {"GET", "POST"}
    /\ resp' = [resp EXCEPT ![h] =
                   [status |-> 405, body |-> "Method not allowed", gain |-> 0]]
    /\ hpc' = [hpc EXCEPT ![h] = "idle"]
    /\ UNCHANGED << mainVars, chanVars, prodVars, consVars, gain, hreq, srcVars,
                    histVars, fnVars, lockVars >>

\* A handleSetGain without the check for a gain of 0.
HandleSetGainNoZeroCheck(h) ==
    /\ Alive
    /\ hpc[h] = "request"
    /\ hreq[h].method = "POST"
    /\ LET body == JsonDecode(hreq[h])
       IN  IF body.err
           THEN /\ resp' = [resp EXCEPT ![h] =
                              [status |-> 400, body |-> "Invalid JSON body", gain |-> 0]]
                /\ hpc' = [hpc EXCEPT ![h] = "idle"]
                /\ UNCHANGED gain
           ELSE /\ SetGain(body.Gain)
                /\ hpc' = [hpc EXCEPT ![h] = "respond"]
                /\ UNCHANGED resp
    /\ UNCHANGED << mainVars, chanVars, prodVars, consVars, hreq, srcVars,
                    histVars, fnVars, lockVars >>

\* serial.go:236-253: handleSetGain up to s.SetGain(body.Gain).
HandleSetGain(h) ==
    /\ Alive
    /\ hpc[h] = "request"
    /\ hreq[h].method = "POST"
    /\ LET body == JsonDecode(hreq[h])
       IN  IF body.err
           THEN /\ resp' = [resp EXCEPT ![h] =
                              [status |-> 400, body |-> "Invalid JSON body", gain |-> 0]]
                /\ hpc' = [hpc EXCEPT ![h] = "idle"]
                /\ UNCHANGED gain
           ELSE IF body.Gain = 0
           THEN /\ resp' = [resp EXCEPT ![h] =
                              [status |-> 400, body |-> "Gain cannot be 0", gain |-> 0]]
                /\ hpc' = [hpc EXCEPT ![h] = "idle"]
                /\ UNCHANGED gain
           ELSE /\ SetGain(body.Gain)
                /\ hpc' = [hpc EXCEPT ![h] = "respond"]
                /\ UNCHANGED resp
    /\ UNCHANGED << mainVars, chanVars, prodVars, consVars, hreq, srcVars,
                    histVars, fnVars, lockVars >>

\* serial.go:255-260: handleSetGain's response, with s.GetGain() read again.
HandleSetGainRespond(h) ==
    /\ Alive
    /\ hpc[h] = "respond"
    /\ resp' = [resp EXCEPT ![h] = [status |-> 200, body |-> "success", gain |-> GetGain]]
    /\ hpc' = [hpc EXCEPT ![h] = "idle"]
    /\ UNCHANGED << mainVars, chanVars, prodVars, consVars, gain, hreq, srcVars,
                    histVars, fnVars, lockVars >>

\* ------------------------------------------------------------ decode loop, step by step

\* A validation that looks at the length only.
PacketCheckLengthOnly(pkt) ==
    IF Len(pkt) # FrameLen THEN "invalid length" ELSE "ok"

\* main.go:85-93: the two checks at the top of the loop body, as the report
\* logged, or "ok".
PacketCheck(pkt) ==
    IF Len(pkt) # FrameLen THEN "invalid length"
    ELSE IF pkt[1] # HeaderByte THEN "invalid header"
    ELSE "ok"

\* main.go:84-93: the range loop receives the oldest buffered packet and
\* validates it; an invalid packet is reported and the loop continues with
\* the next one.
DecodeRecv ==
    /\ Alive
    /\ cpc = "recv"
    /\ DataStream # << >>
    /\ packet' = ChanRecv(DataStream).value
    /\ DataStream' = ChanRecv(DataStream).rest
    /\ recvIdx' = Append(recvIdx, ChanRecv(qIdx).value)
    /\ qIdx' = ChanRecv(qIdx).rest
    /\ backing' = ChanRecv(backing).rest
    /\ recvAfterClose' = (recvAfterClose \/ closed)
    /\ IF PacketCheck(packet') = "ok"
       THEN /\ cpc' = "gain"
            /\ out' = NoOutput
       ELSE /\ cpc' = "recv"
            /\ out' = [status |-> PacketCheck(packet'), volts |-> << >>]
    /\ UNCHANGED << mainVars, closed, prodVars, currentGain, decodeCh, apiVars,
                    srcVars, offered, dropped, closeCount, launched, panicked,
                    readErr, itersAfterCancel, fnVars, lockVars >>

\* main.go:96-105: currentGain := appSettings.GetGain(), "RX: " is printed and
\* the channel loop starts at ch = 0.
DecodeGetGain ==
    /\ Alive
    /\ cpc = "gain"
    /\ currentGain' = GetGain
    /\ out' = [status |-> "RX", volts |-> << >>]
    /\ decodeCh' = 0
    /\ cpc' = "channel"
    /\ UNCHANGED << mainVars, chanVars, prodVars, packet, apiVars, srcVars,
                    histVars, fnVars, lockVars >>

\* A channel loop that asks the settings for the gain at every channel.
DecodeChannelLiveGain ==
    /\ Alive
    /\ cpc = "channel"
    /\ decodeCh < Channels
    /\ out' = [out EXCEPT !.volts = Append(@, Volts(Sample(packet, decodeCh), GetGain))]
    /\ decodeCh' = decodeCh + 1
    /\ UNCHANGED << mainVars, chanVars, prodVars, cpc, packet, currentGain, apiVars,
                    srcVars, histVars, fnVars, lockVars >>

\* main.go:105-129: one pass of the channel loop: the value of channel ch is
\* computed with currentGain and printed, and ch++.
DecodeChannel ==
    /\ Alive
    /\ cpc = "channel"
    /\ decodeCh < Channels
    /\ out' = [out EXCEPT !.volts = Append(@, Volts(Sample(packet, decodeCh), currentGain))]
    /\ decodeCh' = decodeCh + 1
    /\ UNCHANGED << mainVars, chanVars, prodVars, cpc, packet, currentGain, apiVars,
                    srcVars, histVars, fnVars, lockVars >>

\* main.go:105,130: ch < 8 fails, the line is ended and the range loop goes
\* on to its next receive.
DecodeLine ==
    /\ Alive
    /\ cpc = "channel"
    /\ decodeCh = Channels
    /\ cpc' = "recv"
    /\ UNCHANGED << mainVars, chanVars, prodVars, packet, out, currentGain, decodeCh,
                    apiVars, srcVars, histVars, fnVars, lockVars >>

\* The packets a sender may put into DataStream, an exported field: a valid
\* frame, a frame with another header byte, a frame one byte short and a
\* frame one byte long.
LoopPackets ==
    {DeviceFrame(1),
     [DeviceFrame(1) EXCEPT ![1] = 66],
     SubSeq(DeviceFrame(1), 1, FrameLen - 1),
     Append(DeviceFrame(1), 0)}

\* A sender puts packet p into DataStream (a non-blocking send, as
\* serial.go:121-125), at most MaxInject times in a run.
Inject(p) ==
    /\ Alive
    /\ cpc # "none"
    /\ ~closed
    /\ Len(offered) < MaxInject
    /\ Offer(p)
    /\ backing' = ChanTrySend(backing, FullPacketArray)
    /\ UNCHANGED << mainVars, closed, prodVars, consVars, apiVars, srcVars, recvIdx,
                    closeCount, launched, readErr, itersAfterCancel,
                    recvAfterClose, fnVars, lockVars >>

\* ------------------------------------------------------------ settings, lock by lock

\* A write lock that is granted while readers are inside.
CanLockShared(m) == ~m.writer

\* sync.RWMutex.Lock (part_001:27) is granted when no writer and no reader
\* holds the mutex.
CanLock(m) == ~m.writer /\ m.readers = 0

\* sync.RWMutex.RLock (part_001:20) is granted when no writer holds the mutex.
CanRLock(m) == ~m.writer

\* The gains a caller may pass to SetGain.
SettingsGains == {1, 8}

\* The callers that set the gain: the handlers (serial.go:252); the decode
\* loop only reads it (main.go:96).
Setters == Callers \ {"decode"}

\* A caller enters GetGain (part_001:19).
GetGainCall(c) ==
    /\ spc[c] = "idle"
    /\ spc' = [spc EXCEPT ![c] = "rlock"]
    /\ getLog' = [getLog EXCEPT ![c] = IF setLog.active = {}
                                       THEN [quiet |-> TRUE, last |-> setLog.last,
                                             alone |-> setLog.alone]
                                       ELSE NoView]
    /\ UNCHANGED << mainVars, chanVars, prodVars, consVars, apiVars, srcVars,
                    histVars, fnVars, mu, sarg, sret, setLog >>

\* part_001:20: s.mu.RLock().
GetGainRLock(c) ==
    /\ spc[c] = "rlock"
    /\ CanRLock(mu)
    /\ mu' = [mu EXCEPT !.readers = @ + 1]
    /\ spc' = [spc EXCEPT ![c] = "rheld"]
    /\ UNCHANGED << mainVars, chanVars, prodVars, consVars, apiVars, srcVars,
                    histVars, fnVars, sarg, sret, setLog, getLog >>

\* part_001:22: return s.gain fixes the result.
GetGainRead(c) ==
    /\ spc[c] = "rheld"
    /\ sret' = [sret EXCEPT ![c] = gain]
    /\ spc' = [spc EXCEPT ![c] = "runlock"]
    /\ UNCHANGED << mainVars, chanVars, prodVars, consVars, apiVars, srcVars,
                    histVars, fnVars, mu, sarg, setLog, getLog >>

\* part_001:21: the deferred s.mu.RUnlock().
GetGainRUnlock(c) ==
    /\ spc[c] = "runlock"
    /\ mu' = [mu EXCEPT !.readers = @ - 1]
    /\ spc' = [spc EXCEPT ![c] = "gret"]
    /\ UNCHANGED << mainVars, chanVars, prodVars, consVars, apiVars, srcVars,
                    histVars, fnVars, sarg, sret, setLog, getLog >>

\* GetGain returns to its caller, which uses the result.
GetGainReturn(c) ==
    /\ spc[c] = "gret"
    /\ spc' = [spc EXCEPT ![c] = "idle"]
    /\ sret' = [sret EXCEPT ![c] = DefaultGain]
    /\ getLog' = [getLog EXCEPT ![c] = NoView]
    /\ UNCHANGED << mainVars, chanVars, prodVars, consVars, apiVars, srcVars,
                    histVars, fnVars, mu, sarg, setLog >>

\* A caller enters SetGain(g) (part_001:26).
SetGainCall(c, g) ==
    /\ spc[c] = "idle"
    /\ spc' = [spc EXCEPT ![c] = "lock"]
    /\ sarg' = [sarg EXCEPT ![c] = g]
    /\ setLog' = [setLog EXCEPT
                     !.active = @ \cup {c},
                     !.overlapped = IF setLog.active = {} THEN @
                                    ELSE @ \cup setLog.active \cup {c},
                     !.passed = @ \cup {g}]
    /\ getLog' = [d \in Callers |-> NoView]
    /\ UNCHANGED << mainVars, chanVars, prodVars, consVars, apiVars, srcVars,
                    histVars, fnVars, mu, sret >>

\* part_001:27: s.mu.Lock().
SetGainLock(c) ==
    /\ spc[c] = "lock"
    /\ CanLock(mu)
    /\ mu' = [mu EXCEPT !.writer = TRUE]
    /\ spc' = [spc EXCEPT ![c] = "wheld"]
    /\ UNCHANGED << mainVars, chanVars, prodVars, consVars, apiVars, srcVars,
                    histVars, fnVars, sarg, sret, setLog, getLog >>

\* part_001:29: s.gain = g.
SetGainWrite(c) ==
    /\ spc[c] = "wheld"
    /\ gain' = sarg[c]
    /\ spc' = [spc EXCEPT ![c] = "wunlock"]
    /\ UNCHANGED << mainVars, chanVars, prodVars, consVars, hpc, hreq, resp,
                    srcVars, histVars, fnVars, mu, sarg, sret, setLog, getLog >>

\* part_001:28: the deferred s.mu.Unlock().
SetGainUnlock(c) ==
    /\ spc[c] = "wunlock"
    /\ mu' = [mu EXCEPT !.writer = FALSE]
    /\ spc' = [spc EXCEPT ![c] = "sret"]
    /\ UNCHANGED << mainVars, chanVars, prodVars, consVars, apiVars, srcVars,
                    histVars, fnVars, sarg, sret, setLog, getLog >>

\* SetGain returns to its caller.
SetGainReturn(c) ==
    /\ spc[c] = "sret"
    /\ spc' = [spc EXCEPT ![c] = "idle"]
    /\ sarg' = [sarg EXCEPT ![c] = DefaultGain]
    /\ setLog' = [setLog EXCEPT
                     !.last = sarg[c],
                     !.alone = c \notin setLog.overlapped,
                     !.active = @ \ {c},
                     !.overlapped = @ \ {c}]
    /\ UNCHANGED << mainVars, chanVars, prodVars, consVars, apiVars, srcVars,
                    histVars, fnVars, mu, sret, getLog >>

\* ------------------------------------------------------------ decode function

\* The sample values the decode function is tried on.
TestSamples == {0, 1, -1, 8388607, -8388608, 4259840}

\* The gains the decode function is tried on.
TestGains == {-1, 0, 1, 4}

\* The packets the decode function is tried on: well-formed frames, a frame
\* one byte short, a frame with another header byte and the empty packet.
TestPackets ==
    LET good == {BuildPacket(<< a, b, b, a, b, a, a, b >>) :
                    a \in TestSamples, b \in TestSamples}
        one == BuildPacket(<< 1, 1, 1, 1, 1, 1, 1, 1 >>)
    IN  good \cup {SubSeq(one, 1, FrameLen - 1), [one EXCEPT ![1] = 66], << >>}

InitDecode ==
    /\ InitBase
    /\ srcLeft = 0
    /\ noiseLeft = 0
    /\ ticksLeft = 0
    /\ PortName = PortMock

\* The inputs of a run of SpecDecode are chosen.
DecodeChoose ==
    /\ fnIn = NoInput
    /\ \E pk \in TestPackets, g \in TestGains : fnIn' = [packet |-> pk, gain |-> g]
    /\ UNCHANGED << mainVars, chanVars, prodVars, consVars, apiVars, srcVars,
                    histVars, fnOut, lockVars >>

\* main.go:85-130: the body of the decode loop applied to the input.
DecodeApply ==
    /\ fnIn # NoInput
    /\ fnOut = NoOutput
    /\ fnOut' = DecodeFrame(fnIn.packet, fnIn.gain)
    /\ UNCHANGED << mainVars, chanVars, prodVars, consVars, apiVars, srcVars,
                    histVars, fnIn, lockVars >>

\* ------------------------------------------------------------ scripted port

\* n bytes none of which is the header byte.
Garbage(n) == [i \in 1..n |-> IF i % 2 = 0 THEN 0 ELSE 66]

\* A noise byte, a frame, a noise byte equal to the header byte and half a
\* frame.
NoisyStream ==
    << 0 >> \o DeviceFrame(1) \o << HeaderByte >> \o SubSeq(DeviceFrame(2), 1, 12)

\* The byte streams a port delivers in a run of SpecStream: two frames back to
\* back; NoisyStream; bytes without any header byte; a header byte in front
\* of a frame; and noise longer than a frame in front of a frame.
Streams ==
    {DeviceFrame(1) \o DeviceFrame(2),
     NoisyStream,
     Garbage(MaxGarbage),
     << HeaderByte >> \o DeviceFrame(1),
     Garbage(FrameLen + 1) \o DeviceFrame(1)}

\* history of a run of SpecStream: no read yet.
NoReads == [reads |-> 0, over |-> FALSE]

\* The stream the port will deliver is fixed.
StreamChoose ==
    /\ fnIn = NoInput
    /\ ppc = "none"
    /\ PortName # PortMock
    /\ \E st \in Streams : fnIn' = [stream |-> st, pos |-> 0]
    /\ fnOut' = NoReads
    /\ UNCHANGED << mainVars, chanVars, prodVars, consVars, apiVars, srcVars,
                    histVars, lockVars >>

\* The bytes a read may return at most: what is left of the stream, up to
\* len(readBuf).
StreamLeft ==
    IF fnIn = NoInput THEN 0
    ELSE IF Len(fnIn.stream) - fnIn.pos > ReadBufLen THEN ReadBufLen
    ELSE Len(fnIn.stream) - fnIn.pos

\* serial.go:87-95: port.Read stores the next n bytes of the stream in readBuf
\* and returns n; they are appended to the accumulator.
ChunkRead(n) ==
    /\ Alive
    /\ ppc = "read"
    /\ n \in 1..StreamLeft
    /\ LET chunk == SubSeq(fnIn.stream, fnIn.pos + 1, fnIn.pos + n)
       IN  /\ packetBuf' = Accumulate(packetBuf, chunk)
           /\ DataStream' = ReadInto(DataStream, backing, chunk)
    /\ fnIn' = [fnIn EXCEPT !.pos = @ + n]
    /\ fnOut' = [reads |-> IF fnOut.reads < ReadCap THEN fnOut.reads + 1 ELSE fnOut.reads,
                 over |-> (fnOut.over \/ DataStream # << >>)]
    /\ ppc' = "frame"
    /\ itersAfterCancel' = CountAfterCancel
    /\ UNCHANGED << mainVars, closed, backing, portClosed, tickReady, t, consVars,
                    apiVars, srcVars, offered, qIdx, recvIdx, dropped, closeCount,
                    launched, panicked, readErr, recvAfterClose, lockVars >>

\* serial.go:99-126: the inner loop run to its end on accumulator buf, as the
\* frames it offers after those in frames and the accumulator it leaves.
RECURSIVE InnerLoop(_, _)
InnerLoop(buf, frames) ==
    IF Len(buf) >= FrameLen
    THEN IF NeedResync(buf)
         THEN InnerLoop(Resync(buf), frames)
         ELSE InnerLoop(Advance(buf), Append(frames, ExtractFrame(buf)))
    ELSE [frames |-> frames, packetBuf |-> buf]

\* ------------------------------------------------------------ source selection

\* A string is the sequence of its characters; "" is << >>.
PatternUsbmodem == << "u", "s", "b", "m", "o", "d", "e", "m" >>
PatternUsbserial == << "u", "s", "b", "s", "e", "r", "i", "a", "l" >>

\* strings.Contains(str, sub).
Contains(str, sub) ==
    \E i \in 0..(Len(str) - Len(sub)) : SubSeq(str, i + 1, i + Len(sub)) = sub

\* serial.go:187-194: FindPreferredPort, the loop from index i on.
RECURSIVE FindFrom(_, _)
FindFrom(ports, i) ==
    IF i > Len(ports) THEN << >>
    ELSE IF Contains(ports[i], PatternUsbmodem) \/ Contains(ports[i], PatternUsbserial)
    THEN ports[i]
    ELSE FindFrom(ports, i + 1)

FindPreferredPort(ports) == FindFrom(ports, 1)

\* main.go:30-55: what main does with the list of ports and os.Args (args[1]
\* is the program's name): it returns without starting anything, or goes on
\* to start the device on the selected port.
SelectSource(ports, args) ==
    IF Len(ports) = 0
    THEN [action |-> "return", port |-> << >>]
    ELSE LET selectedPort == FindPreferredPort(ports)
         IN  IF Len(args) > 1 /\ args[2] = "mock"
             THEN [action |-> "start", port |-> PortMock]
             ELSE IF selectedPort = << >>
             THEN [action |-> "start", port |-> PortMock]
             ELSE [action |-> "start", port |-> selectedPort]

\* serial.go:40-62: the producer Start launches for a port name.
ProducerFor(port) == IF port = PortMock THEN "mockLoop" ELSE "readLoop"

\* The port names the system may list.
PortNames ==
    {<< "t", "t", "y", "." >> \o PatternUsbmodem \o << "1" >>,
     << "c", "u", "." >> \o PatternUsbserial,
     << "t", "t", "y", "S", "0" >>,
     << "u", "s", "b", "m", "o", "d", "e" >>,
     << "u", "s", "b", "-", "s", "e", "r", "i", "a", "l" >>}

\* The lists of at most n port names.
PortLists(n) == UNION {[1..k -> PortNames] : k \in 0..n}

\* The argument vectors the program may be started with.
ArgVectors ==
    {<< "server" >>, << "server", "mock" >>, << "server", "MOCK" >>,
     << "server", "fast", "mock" >>}

\* The ports found and the arguments of a run of SpecSelect are chosen.
SelectChoose ==
    /\ fnIn = NoInput
    /\ \E ports \in PortLists(MaxPorts), args \in ArgVectors :
          fnIn' = [ports |-> ports, args |-> args]
    /\ UNCHANGED << mainVars, chanVars, prodVars, consVars, apiVars, srcVars,
                    histVars, fnOut, lockVars >>

\* main.go:24-77: main selects the source.
SelectApply ==
    /\ fnIn # NoInput
    /\ fnOut = NoOutput
    /\ fnOut' = SelectSource(fnIn.ports, fnIn.args)
    /\ UNCHANGED << mainVars, chanVars, prodVars, consVars, apiVars, srcVars,
                    histVars, fnIn, lockVars >>

\* ------------------------------------------------------------ codec

\* The bytes the decoder is tried on, three at a time.
TestBytes == {0, 1, 65, 127, 128, 255}

\* The sample values the encoder is tried on: both ends of the 24-bit range,
\* the mock's amplitude, and values around the byte boundaries.
TestValues ==
    {-8388608, -8388607, -8000000, -65537, -65536, -257, -256, -1, 0, 1, 255,
     256, 65535, 65536, 4259840, 8000000, 8388606, 8388607}

\* Eight samples with v at channel c (0-based) and other values elsewhere.
SamplesWith(v, c) == [k \in 1..Channels |-> IF k = c + 1 THEN v ELSE 0 - k]

\* The input of a run of SpecCodec is chosen: a byte triplet for the decoder,
\* or a value and a channel for the encoder.
CodecChoose ==
    /\ fnIn = NoInput
    /\ \/ \E b0 \in TestBytes, b1 \in TestBytes, b2 \in TestBytes :
             fnIn' = [kind |-> "triplet", bytes |-> << b0, b1, b2 >>]
       \/ \E v \in TestValues, c \in 0..(Channels - 1) :
             fnIn' = [kind |-> "value", samples |-> SamplesWith(v, c), v |-> v, c |-> c]
    /\ UNCHANGED << mainVars, chanVars, prodVars, consVars, apiVars, srcVars,
                    histVars, fnOut, lockVars >>

\* main.go:107-122 on a packet that holds the triplet as channel 0.
CodecDecode ==
    /\ fnIn # NoInput
    /\ fnIn.kind = "triplet"
    /\ fnOut = NoOutput
    /\ fnOut' = [valSigned |-> Sample(<< HeaderByte >> \o fnIn.bytes, 0)]
    /\ UNCHANGED << mainVars, chanVars, prodVars, consVars, apiVars, srcVars,
                    histVars, fnIn, lockVars >>

\* serial.go:149-166 on the samples, then main.go:105-122 on the packet.
CodecRoundTrip ==
    /\ fnIn # NoInput
    /\ fnIn.kind = "value"
    /\ fnOut = NoOutput
    /\ LET pkt == BuildPacket(fnIn.samples)
       IN  fnOut' = [packet |-> pkt,
                     valSigned |-> [k \in 1..Channels |-> Sample(pkt, k - 1)]]
    /\ UNCHANGED << mainVars, chanVars, prodVars, consVars, apiVars, srcVars,
                    histVars, fnIn, lockVars >>

\* ------------------------------------------------------------ specifications

\* The reads of a run of Spec: any cut of the frame under way, at most one
\* noise byte and at most two whole frames in a read.
ReadAny ==
    \E r \in (IF pending = << >> THEN {0} ELSE 1..Len(pending)),
       nz \in {<< >>} \cup {<< b >> : b \in NoiseBytes},
       m \in 0..2, j \in 0..(FrameLen - 1) :
        PortRead(r, nz, m, j)

\* The reads of a run of SpecBurst: the rest of the frame under way, then as
\* many whole frames as the read buffer holds and, while frames remain, the
\* first 12 bytes of the next, so that every read but the last ends in the
\* middle of a frame.
ReadBurst ==
    LET room == (ReadBufLen - Len(pending) - 12) \div FrameLen
    IN  IF srcLeft > room
        THEN PortRead(Len(pending), << >>, room, 12)
        ELSE PortRead(Len(pending), << >>, srcLeft, 0)

Next ==
    \/ DeviceStart
    \/ Interrupt
    \/ MainWait
    \/ ReadLoopSelect
    \/ ReadAny
    \/ PortReadEmpty
    \/ PortReadError
    \/ FrameStep
    \/ ReadLoopExit
    \/ ReadLoopClosePort
    \/ Tick
    \/ MockCancel
    \/ MockTick
    \/ MockExit
    \/ ConsumerRecv
    \/ ConsumerEnd

Spec == Init /\ [][Next]_vars

\* A run long enough to fill DataStream: no noise, reads in bursts.
InitBurst ==
    /\ InitBase
    /\ srcLeft = Capacity + Overflow
    /\ noiseLeft = 0
    /\ ticksLeft = Capacity + Overflow

NextBurst ==
    \/ DeviceStart
    \/ Interrupt
    \/ MainWait
    \/ ReadLoopSelect
    \/ ReadBurst
    \/ PortReadEmpty
    \/ PortReadError
    \/ FrameStep
    \/ ReadLoopExit
    \/ ReadLoopClosePort
    \/ Tick
    \/ MockCancel
    \/ MockTick
    \/ MockExit
    \/ ConsumerRecv
    \/ ConsumerEnd

SpecBurst == InitBurst /\ [][NextBurst]_vars

\* Spec with the fairness Go's scheduler gives: every goroutine that can take
\* a step of its own eventually takes one.  Nothing obliges the environment:
\* the port may stay silent (no PortRead, PortReadEmpty or PortReadError),
\* Ctrl+C may never come and the run's ticks may run out.
FairSpec ==
    /\ Init
    /\ [][Next]_vars
    /\ WF_vars(DeviceStart)
    /\ WF_vars(MainWait)
    /\ WF_vars(ReadLoopSelect)
    /\ WF_vars(FrameStep)
    /\ WF_vars(ReadLoopExit)
    /\ WF_vars(ReadLoopClosePort)
    /\ WF_vars(MockCancel \/ MockTick)
    /\ WF_vars(MockExit)
    /\ WF_vars(ConsumerRecv)
    /\ WF_vars(ConsumerEnd)

\* The control interface alone: requests served by concurrent handlers.
NextApi ==
    \/ \E h \in Handlers, rq \in Requests : ApiRequest(h, rq)
    \/ \E h \in Handlers : HandleGetGain(h)
    \/ \E h \in Handlers : HandleOther(h)
    \/ \E h \in Handlers : HandleSetGain(h)
    \/ \E h \in Handlers : HandleSetGainRespond(h)

SpecApi == Init /\ [][NextApi]_vars

\* The decode loop, step by step, fed with valid and invalid packets while one
\* handler serves POST /api/gain requests; the producer sends nothing and ends
\* on cancellation.
InitLoop ==
    /\ InitBase
    /\ srcLeft = 0
    /\ noiseLeft = 0
    /\ ticksLeft = 0

\* The POST requests of a run of SpecLoop: those that carry a positive gain.
LoopRequests ==
    {rq \in Requests : rq.method = "POST" /\ rq.kind = "number" /\ rq.gain > 0}

NextLoop ==
    \/ DeviceStart
    \/ Interrupt
    \/ ReadLoopSelect
    \/ ReadLoopExit
    \/ ReadLoopClosePort
    \/ MockCancel
    \/ MockExit
    \/ \E p \in LoopPackets : Inject(p)
    \/ DecodeRecv
    \/ DecodeGetGain
    \/ DecodeChannel
    \/ DecodeLine
    \/ ConsumerEnd
    \/ \E rq \in LoopRequests : ApiRequest(1, rq)
    \/ HandleSetGain(1)
    \/ HandleSetGainRespond(1)

SpecLoop == InitLoop /\ [][NextLoop]_vars

\* Both producers and the decode loop, the port delivering one of Streams cut
\* into reads in any way.
InitStream ==
    /\ InitBase
    /\ srcLeft = 0
    /\ noiseLeft = 0
    /\ ticksLeft = MaxTicks

NextStream ==
    \/ StreamChoose
    \/ DeviceStart
    \/ Interrupt
    \/ ReadLoopSelect
    \/ \E n \in 1..StreamLeft : ChunkRead(n)
    \/ FrameStep
    \/ ReadLoopExit
    \/ ReadLoopClosePort
    \/ Tick
    \/ MockCancel
    \/ MockTick
    \/ MockExit
    \/ ConsumerRecv
    \/ ConsumerEnd

SpecStream == InitStream /\ [][NextStream]_vars

\* SpecStream with the scheduler's fairness for readLoop's inner loop.
FairSpecStream == SpecStream /\ WF_vars(FrameStep)

\* The settings alone: the decode loop and two handlers calling GetGain and
\* SetGain, lock by lock.
InitSettings ==
    /\ InitBase
    /\ PortName = PortMock
    /\ srcLeft = 0
    /\ noiseLeft = 0
    /\ ticksLeft = 0

NextSettings ==
    \/ \E c \in Callers : GetGainCall(c)
    \/ \E c \in Callers : GetGainRLock(c)
    \/ \E c \in Callers : GetGainRead(c)
    \/ \E c \in Callers : GetGainRUnlock(c)
    \/ \E c \in Callers : GetGainReturn(c)
    \/ \E c \in Setters, g \in SettingsGains : SetGainCall(c, g)
    \/ \E c \in Setters : SetGainLock(c)
    \/ \E c \in Setters : SetGainWrite(c)
    \/ \E c \in Setters : SetGainUnlock(c)
    \/ \E c \in Setters : SetGainReturn(c)

SpecSettings == InitSettings /\ [][NextSettings]_vars

\* The source selection as a function of the ports found and the arguments.
NextSelect ==
    \/ SelectChoose
    \/ SelectApply

SpecSelect == InitSettings /\ [][NextSelect]_vars

\* The mock's encoder and the decode loop's decoder as functions.
NextCodec ==
    \/ CodecChoose
    \/ CodecDecode
    \/ CodecRoundTrip

SpecCodec == InitSettings /\ [][NextCodec]_vars

\* The decode loop's body as a function of a packet and a gain.
NextDecode ==
    \/ DecodeChoose
    \/ DecodeApply

SpecDecode == InitDecode /\ [][NextDecode]_vars

\* ------------------------------------------------------------ claims

\* A sequence is an initial part of another.
IsPrefix(a, b) == Len(a) <= Len(b) /\ SubSeq(b, 1, Len(a)) = a

\* The valid frames the port has delivered in full, in the order sent.
WireFrames ==
    [k \in 1..(nStarted - (IF pending = << >> THEN 0 ELSE 1)) |-> DeviceFrame(k)]

\* readLoop runs or has run, and is not inside its inner loop.
ReaderAtRest == "readLoop" \in launched /\ ppc # "frame"

\* C1, as stated: whatever noise bytes come between the valid frames and
\* however the stream is cut into reads, once readLoop has worked through
\* what it read, the frames it offered to DataStream are exactly the valid
\* frames delivered, in order.
C1_FrameRecoveryAnyNoise == ReaderAtRest => offered = WireFrames

\* C1, amended: the same when no noise byte equals the header byte 0x41; and
\* inside the inner loop the frames offered so far are an initial part of the
\* valid frames.
C1_FrameRecovery ==
    ("readLoop" \in launched /\ ~noiseA) =>
        /\ IsPrefix(offered, WireFrames)
        /\ ReaderAtRest => offered = WireFrames

\* C1's case: a noise byte other than 0x41 was sent, every frame of the run
\* was delivered, and all were offered.
C1_Witness ==
    /\ ReaderAtRest
    /\ ~noiseA
    /\ noiseLeft < MaxNoise
    /\ Len(offered) = MaxFrames
    /\ offered = WireFrames

\* C2: an enqueue attempt is one step that the producer can always take;
\* DataStream never holds more than 100 frames; an attempt on a full buffer
\* leaves the buffer as it was and counts a drop, any other appends the
\* offered frame at the end; and the producer stays in its loop.
C2_NonBlockingDropNewest ==
    [][ /\ Len(DataStream') <= Capacity
        /\ (ppc = "frame") => ENABLED FrameStep
        /\ (ppc = "mselect" /\ tickReady) => ENABLED MockTick
        /\ (Len(offered') = Len(offered) + 1) =>
              /\ IF Len(DataStream) = Capacity
                 THEN DataStream' = DataStream /\ dropped' = dropped + 1
                 ELSE /\ DataStream' = Append(DataStream, offered'[Len(offered')])
                      /\ dropped' = dropped
              /\ ppc' = ppc
              /\ ppc \in {"frame", "mselect"} ]_vars

\* C2's case: a frame was offered to the full buffer and dropped.
C2_Witness == dropped > 0 /\ Len(DataStream) = Capacity

\* C3: each frame the decode loop receives is the frame offered under an
\* index greater than the index of the frame received before it, so the
\* frames received are a subsequence of the frames offered, none twice.
C3_FifoSubsequence ==
    [][ (Len(recvIdx') = Len(recvIdx) + 1) =>
           LET i == recvIdx'[Len(recvIdx')]
           IN  /\ i \in 1..Len(offered)
               /\ (recvIdx # << >>) => (i > recvIdx[Len(recvIdx)])
               /\ packet' = offered[i]
               /\ SubSeq(recvIdx', 1, Len(recvIdx)) = recvIdx
               /\ offered' = offered ]_vars

\* C3's case: a frame was dropped, and the last frame of the run, offered
\* after the drop, was received.
C3_Witness ==
    /\ dropped > 0
    /\ recvIdx # << >>
    /\ recvIdx[Len(recvIdx)] = Capacity + Overflow

\* C4: Start launches one producer loop, never both; DataStream is closed at
\* most once, only by that loop on its way out after a read error or the
\* cancellation; and there is neither a double close nor a send on the
\* closed channel.
C4_CloseDiscipline ==
    /\ closeCount <= 1
    /\ ~panicked
    /\ Cardinality(launched) <= 1
    /\ (mainpc \in {"wait", "sleep"}) => (Cardinality(launched) = 1)
    /\ closed <=> (closeCount = 1)
    /\ closed => (ppc \in {"closeport", "done"} /\ (ctxDone \/ readErr))
    /\ (ppc = "done") => closed

\* C4's case: a producer that has offered frames was cancelled and has
\* closed the channel and ended.
C4_Witness ==
    /\ closed
    /\ closeCount = 1
    /\ ppc = "done"
    /\ ctxDone
    /\ offered # << >>

\* C5: after the cancellation the producer takes at most one more read or
\* tick before it closes DataStream.
C5_OneIterationAfterCancel == itersAfterCancel <= 1

\* What does hold of C5: readLoop takes at most one more read after the
\* cancellation.
C5_ReadLoopOneIteration == ("readLoop" \in launched) => (itersAfterCancel <= 1)

\* C6: once the context is cancelled while readLoop waits in port.Read,
\* readLoop ends, with DataStream closed and the port closed, even if the
\* port delivers nothing more.
C6_CancelWhileSilent ==
    (ctxDone /\ ppc = "read") ~> (ppc = "done" /\ closed /\ portClosed)

C8_ReadErrorFatal ==
    [][ /\ readErr =>
              /\ ppc \in {"exit", "closeport", "done"}
              /\ offered' = offered
              /\ packetBuf' = packetBuf
              /\ (ppc = "done") => (closed /\ portClosed)
              /\ Alive
              /\ ~ctxDone => mainpc = "wait"
              /\ (cpc = "done") => (closed /\ DataStream = << >>)
              /\ (cpc = "recv" /\ DataStream # << >>) => ENABLED ConsumerRecv
        /\ (~readErr /\ readErr') =>
              /\ ppc = "read"
              /\ ppc' = "exit"
              /\ UNCHANGED << mainpc, cpc, DataStream, closed, offered >> ]_vars

\* C8's case: a read error came with a partial frame in the accumulator;
\* readLoop has closed the channel and the port and ended, while main still
\* waits and the decode loop still runs.
C8_Witness ==
    /\ readErr
    /\ ppc = "done"
    /\ closed
    /\ portClosed
    /\ packetBuf # << >>
    /\ ~ctxDone
    /\ mainpc = "wait"
    /\ cpc = "recv"

\* The request a handler holds is one handleSetGain rejects.
Rejectable(rq) == rq.method = "POST" /\ (rq.kind # "number" \/ rq.gain = 0)

\* C9: a POST whose body is malformed or whose gain is 0 or missing is
\* answered with status 400 and leaves the stored gain as it was; a response
\* with status 400 never comes with a change of the gain; and the stored
\* gain is never 0.
C9_RejectedLeavesGain ==
    [][ /\ gain' # 0
        /\ \A h \in Handlers :
              /\ (hpc[h] = "request" /\ hpc'[h] # "request" /\ Rejectable(hreq[h])) =>
                    (resp'[h].status = 400 /\ hpc'[h] = "idle" /\ gain' = gain)
              /\ (hpc[h] # "idle" /\ hpc'[h] = "idle" /\ resp'[h].status = 400) =>
                    gain' = gain ]_vars

\* C9's case: after the gain was set to another value, a request with gain 0
\* was rejected.
C9_Witness ==
    \E h \in Handlers :
        /\ hpc[h] = "idle"
        /\ hreq[h] = [method |-> "POST", kind |-> "number", gain |-> 0]
        /\ resp[h].status = 400
        /\ gain \notin {0, DefaultGain}

TwosComplement24(b0, b1, b2) ==
    LET u == b0 * 65536 + b1 * 256 + b2
    IN  IF u < 8388608 THEN u ELSE u - 16777216

\* The value of channel c (from 1) of a frame: the triplet at bytes
\* 1 + 3*(c-1) .. 3 + 3*(c-1), counted from 0.
ChannelValue(pkt, c) == TwosComplement24(pkt[3 * c - 1], pkt[3 * c], pkt[3 * c + 1])

\* A packet is 25 bytes long and starts with 0x41.
ValidFrame(pkt) == Len(pkt) = FrameLen /\ pkt[1] = HeaderByte

\* C11: once the decode loop is through with a packet it received, it has
\* produced eight values, those of channels 1..8 in this order, when the
\* packet is 25 bytes long and starts with 0x41, and otherwise no value and a
\* report; while it decodes, the values produced so far are those of the
\* first channels in order; it can always receive the next buffered packet;
\* and it has ended only when the channel is closed and empty.
C11_DecoderValidation ==
    /\ (recvIdx # << >> /\ cpc \in {"recv", "done"}) =>
          IF ValidFrame(packet)
          THEN /\ out.status = "RX"
               /\ Len(out.volts) = Channels
          ELSE /\ out.status \in {"invalid length", "invalid header"}
               /\ out.volts = << >>
    /\ (cpc \in {"gain", "channel"}) => ValidFrame(packet)
    /\ \A c \in 1..Len(out.volts) :
          /\ c <= Channels
          /\ out.volts[c].kind = "finite"
          /\ out.volts[c].num = ChannelValue(packet, c) * VRef
    /\ (cpc = "recv" /\ DataStream # << >>) => ENABLED DecodeRecv
    /\ (cpc = "done") => (closed /\ DataStream = << >>)

\* C11's case: the decode loop reported an invalid packet, went on, and has
\* produced the eight values of the valid packet that came after it.
C11_Witness ==
    /\ Len(recvIdx) = 2
    /\ ~ValidFrame(offered[1])
    /\ ValidFrame(offered[2])
    /\ cpc = "recv"
    /\ out.status = "RX"
    /\ Len(out.volts) = Channels

\* C12: every frame buffered in DataStream, and every packet the decode loop
\* has received, is 25 bytes long and starts with 0x41, whichever loop
\* enqueued it and whatever bytes the port delivered; a buffered frame holds
\* the bytes it had when it was offered; and no step, a later port.Read
\* included, changes a buffered frame: the buffer only loses its head or
\* gains a frame at its end.
C12_ValidatedFrames ==
    /\ [](\A i \in 1..Len(DataStream) :
              /\ ValidFrame(DataStream[i])
              /\ DataStream[i] = offered[qIdx[i]])
    /\ []((recvIdx # << >>) =>
              /\ ValidFrame(packet)
              /\ packet = offered[recvIdx[Len(recvIdx)]])
    /\ [][IsPrefix(DataStream, DataStream') \/ DataStream' = Tail(DataStream)]_vars

\* C12's case: the port has delivered all of NoisyStream, and port.Read stored
\* bytes in the read buffer while the frame readLoop had offered was buffered,
\* as it still is.
C12_Witness ==
    /\ "readLoop" \in launched
    /\ fnIn # NoInput
    /\ fnIn.stream = NoisyStream
    /\ fnIn.pos = Len(NoisyStream)
    /\ fnOut.over
    /\ Len(DataStream) = 1

\* The callers inside SetGain's critical section, and those inside GetGain's.
WritersInside == {c \in Callers : spc[c] \in {"wheld", "wunlock"}}
ReadersInside == {c \in Callers : spc[c] \in {"rheld", "runlock"}}

\* No writer is inside its critical section while another writer or a reader
\* is inside theirs, and every GetGain result is the initial gain or an
\* argument of some SetGain.
SettingsExclusion ==
    /\ Cardinality(WritersInside) <= 1
    /\ (WritersInside # {}) => (ReadersInside = {})
    /\ \A c \in Callers : sret[c] \in {DefaultGain} \cup setLog.passed

\* C13, as stated: SettingsExclusion, and a GetGain that started after a
\* SetGain(g) had returned, that one being the last to return and no SetGain
\* being under way then or beginning before the GetGain returns, returns g.
C13_LastWriteWinsAnyOrder ==
    /\ SettingsExclusion
    /\ \A c \in Callers :
          (spc[c] = "gret" /\ getLog[c].quiet) => (sret[c] = getLog[c].last)

\* C13, amended: the same for a SetGain(g) that no other SetGain call
\* overlapped.
C13_LastWriteWins ==
    /\ SettingsExclusion
    /\ \A c \in Callers :
          (spc[c] = "gret" /\ getLog[c].quiet /\ getLog[c].alone) =>
              (sret[c] = getLog[c].last)

\* C13's case: a GetGain of the decode loop that started after a SetGain(8)
\* had returned, no other SetGain overlapping that one or under way since, is
\* about to return, after an earlier SetGain(1).
C13_Witness ==
    /\ spc["decode"] = "gret"
    /\ getLog["decode"].quiet
    /\ getLog["decode"].alone
    /\ getLog["decode"].last = 8
    /\ setLog.passed = {1, 8}
    /\ sret["decode"] = 8

\* A port name contains one of the two patterns.
Preferred(name) == Contains(name, PatternUsbmodem) \/ Contains(name, PatternUsbserial)

\* C14: for every list of ports and every argument vector, the program starts
\* mockLoop if the first argument is "mock" or no port name contains
\* "usbmodem" or "usbserial" (an empty list included), and otherwise starts
\* readLoop on the first port in list order whose name contains one of them.
C14_SourceSelection ==
    (fnOut # NoOutput) =>
        LET hits == {i \in 1..Len(fnIn.ports) : Preferred(fnIn.ports[i])}
            first == CHOOSE i \in hits : \A k \in hits : i <= k
        IN  /\ fnOut.action = "start"
            /\ IF (Len(fnIn.args) > 1 /\ fnIn.args[2] = "mock") \/ hits = {}
               THEN ProducerFor(fnOut.port) = "mockLoop"
               ELSE /\ ProducerFor(fnOut.port) = "readLoop"
                    /\ fnOut.port = fnIn.ports[first]

\* What does hold of C14: the same whenever at least one port was found.
C14_SourceSelectionSomePort ==
    (fnOut # NoOutput /\ Len(fnIn.ports) > 0) =>
        LET hits == {i \in 1..Len(fnIn.ports) : Preferred(fnIn.ports[i])}
            first == CHOOSE i \in hits : \A k \in hits : i <= k
        IN  /\ fnOut.action = "start"
            /\ IF (Len(fnIn.args) > 1 /\ fnIn.args[2] = "mock") \/ hits = {}
               THEN ProducerFor(fnOut.port) = "mockLoop"
               ELSE /\ ProducerFor(fnOut.port) = "readLoop"
                    /\ fnOut.port = fnIn.ports[first]

\* C15: for every byte triplet the decoder's signed value is the 24-bit
\* big-endian two's-complement reading u, or u - 2^24 from 2^23 on; it lies
\* in -2^23 .. 2^23 - 1; 00 00 01 gives 1 and FF FF FF gives -1.
C15_SignExtendedDecode ==
    (fnOut # NoOutput /\ fnIn.kind = "triplet") =>
        LET u == fnIn.bytes[1] * 65536 + fnIn.bytes[2] * 256 + fnIn.bytes[3]
        IN  /\ fnOut.valSigned = IF u < 8388608 THEN u ELSE u - 16777216
            /\ fnOut.valSigned \in (0 - 8388608)..8388607
            /\ (fnIn.bytes = << 0, 0, 1 >>) => (fnOut.valSigned = 1)
            /\ (fnIn.bytes = << 255, 255, 255 >>) => (fnOut.valSigned = 0 - 1)

\* C15's case: FF FF FF has been decoded, to -1.
C15_Witness ==
    /\ fnOut # NoOutput
    /\ fnIn.kind = "triplet"
    /\ fnIn.bytes = << 255, 255, 255 >>
    /\ fnOut.valSigned = 0 - 1

\* C16: however the stream is cut into non-empty reads, once readLoop has
\* worked through what it read, the frames it has offered and the accumulator
\* it holds are those of a single read of all the bytes delivered so far.
C16_ChunkingInvariance ==
    (ReaderAtRest /\ fnIn # NoInput) =>
        [frames |-> offered, packetBuf |-> packetBuf]
            = InnerLoop(SubSeq(fnIn.stream, 1, fnIn.pos), << >>)

\* C16's case: the two frames of a stream came in three reads or more, so
\* that a frame was split across reads, and both have been offered.
C16_Witness ==
    /\ ReaderAtRest
    /\ fnIn # NoInput
    /\ fnIn.stream = DeviceFrame(1) \o DeviceFrame(2)
    /\ fnIn.pos = 2 * FrameLen
    /\ fnOut.reads >= 3
    /\ offered = << DeviceFrame(1), DeviceFrame(2) >>
    /\ packetBuf = << >>

\* C17: for every value v in -2^23 .. 2^23 - 1 placed at any channel, the
\* packet mockLoop builds holds the value's three big-endian bytes at bytes
\* 1 + 3*ch .. 3 + 3*ch (counted from 0) of every channel ch, and the decode
\* loop reads every channel's value back from it.
C17_RoundTrip ==
    (fnOut # NoOutput /\ fnIn.kind = "value") =>
        /\ Len(fnOut.packet) = FrameLen
        /\ fnOut.packet[1] = HeaderByte
        /\ fnOut.valSigned = fnIn.samples
        /\ fnOut.valSigned[fnIn.c + 1] = fnIn.v
        /\ \A k \in 0..(Channels - 1) :
              LET u == IF fnIn.samples[k + 1] >= 0 THEN fnIn.samples[k + 1]
                       ELSE fnIn.samples[k + 1] + 16777216
              IN  /\ fnOut.packet[1 + 3 * k + 1] = u \div 65536
                  /\ fnOut.packet[2 + 3 * k + 1] = (u \div 256) % 256
                  /\ fnOut.packet[3 + 3 * k + 1] = u % 256

\* C17's case: -2^23 has made the round trip at the last channel.
C17_Witness ==
    /\ fnOut # NoOutput
    /\ fnIn.kind = "value"
    /\ fnIn.v = 0 - 8388608
    /\ fnIn.c = Channels - 1
    /\ SubSeq(fnOut.packet, 23, 25) = << 128, 0, 0 >>
    /\ fnOut.valSigned[Channels] = 0 - 8388608

\* The bytes the port has delivered in a run of SpecStream.
Delivered == SubSeq(fnIn.stream, 1, fnIn.pos)

\* C18, steps: every pass of the inner loop either leaves the loop with
\* nothing changed, or drops exactly the front byte, which is not 0x41, or
\* takes the 25 front bytes, which start with 0x41, as one frame; so the
\* accumulator shrinks at every pass that stays in the loop.
C18_InnerStep ==
    (ppc = "frame") =>
        \/ UNCHANGED << ppc, packetBuf, offered >>
        \/ /\ ppc' # "frame"
           /\ UNCHANGED << packetBuf, offered >>
        \/ /\ packetBuf[1] # HeaderByte
           /\ packetBuf' = Tail(packetBuf)
           /\ offered' = offered
        \/ /\ packetBuf[1] = HeaderByte
           /\ Len(packetBuf) >= FrameLen
           /\ offered' = Append(offered, SubSeq(packetBuf, 1, FrameLen))
           /\ packetBuf' = SubSeq(packetBuf, FrameLen + 1, Len(packetBuf))

\* C18: the inner loop ends after every read (each pass is a C18_InnerStep,
\* and under fairness the loop is left); outside the loop the accumulator
\* holds at most 24 bytes; the accumulator is always the tail of the bytes
\* delivered, and the bytes before it are 25 for each frame offered and the
\* dropped ones; and while no 0x41 has been delivered no frame is offered and
\* no error is raised.
C18_ResyncProgress ==
    /\ [][C18_InnerStep]_vars
    /\ []((fnIn # NoInput /\ ppc # "frame") => Len(packetBuf) < FrameLen)
    /\ []((fnIn # NoInput) =>
            /\ Len(packetBuf) <= fnIn.pos
            /\ packetBuf = SubSeq(fnIn.stream, fnIn.pos - Len(packetBuf) + 1, fnIn.pos)
            /\ FrameLen * Len(offered) + Len(packetBuf) <= fnIn.pos)
    /\ []((fnIn # NoInput /\ \A i \in 1..fnIn.pos : fnIn.stream[i] # HeaderByte) =>
            /\ offered = << >>
            /\ ~readErr
            /\ ~panicked)
    /\ (ppc = "frame") ~> (ppc # "frame")

\* C18's case: the port has delivered the whole stream without a header byte,
\* readLoop has left its inner loop and dropped all but 24 bytes.
C18_Witness ==
    /\ fnIn # NoInput
    /\ fnIn.stream = Garbage(MaxGarbage)
    /\ fnIn.pos = MaxGarbage
    /\ ppc = "select"
    /\ Len(packetBuf) = FrameLen - 1
    /\ offered = << >>

\* C19: the decode loop takes the gain only in the step before channel 1 of a
\* valid frame, where it takes the settings' gain of that moment, and keeps
\* it through the frame; every value printed for a frame is scaled by that
\* gain, whatever SetGain has done to the settings since.
C19_GainSnapshot ==
    /\ [](\A c \in 1..Len(out.volts) : out.volts[c].den = MaxADC * currentGain)
    /\ [][(cpc = "gain" /\ cpc' = "channel") =>
              (currentGain' = gain /\ out'.volts = << >> /\ decodeCh' = 0)]_vars
    /\ [][(currentGain' # currentGain) => (cpc = "gain" /\ cpc' = "channel")]_vars
    /\ [][(cpc = "channel" /\ cpc' = "recv") => Len(out.volts) = Channels]_vars

\* C19's case: the decode loop is in the middle of a frame, four values
\* printed, and a SetGain has changed the settings' gain since the frame's
\* gain was taken.
C19_Witness ==
    /\ cpc = "channel"
    /\ decodeCh = 4
    /\ Len(out.volts) = 4
    /\ gain # currentGain
    /\ resp[1].body = "success"

\* C20: the success response of a POST /api/gain that has been served carries
\* the gain of its request, whatever other POST requests were served
\* meanwhile.
C20_ResponseReportsSetGain ==
    \A h \in Handlers :
        (hpc[h] = "idle" /\ resp[h].body = "success") => (resp[h].gain = hreq[h].gain)

====
